---- MODULE Spec2Model ----
(***************************************************************************)
(* Model of the processes collector plugin (processes/processes.go):       *)
(* GetMetricTypes (discovery), CollectMetrics (collection) and            *)
(* setProcMetrics (per-process metric extraction).                         *)
(*                                                                         *)
(* Conventions.                                                            *)
(*  - Go strings whose bytes the code inspects (command lines, /proc stat   *)
(*    fields) are sequences of one-character strings; strings the code     *)
(*    only compares or copies (namespace values, metric names) are TLA+    *)
(*    strings.  Join turns the first kind into the second.                 *)
(*  - Go slices are 0-based: At(s, i) is the Go expression s[i].           *)
(*  - A Go runtime panic (index out of range) is the outcome "panic".      *)
(*  - time.Now() stamps are left out of the metric records.                *)
(*  - procPlugin keeps no mutable state between calls, so a behaviour is   *)
(*    one call of the plugin on inputs chosen in the initial state.        *)
(***************************************************************************)
EXTENDS Integers, Sequences, FiniteSets, Bags, TLC

VARIABLES request,      \* metricTypes argument of CollectMetrics: namespaces
          stats,        \* what the data source holds: sequence of Proc
          env,          \* "ok" | "cfg_missing" | "fetch_fail"
          pc,           \* position of the call
          idx,          \* 0-based index of the next namespace to resolve
          fetched,      \* "no" | "ok" | "failed": result of mc.GetStats
          stateCount,   \* local map stateCount of CollectMetrics
          metrics,      \* local slice metrics of CollectMetrics
          outcome,      \* "none" | "ok" | "ConfigurationError" |
                        \* "DataSourceError" | "panic"
          ret,          \* the metric slice handed back (<<>> models nil)
          metricTypes,  \* result of GetMetricTypes, as a bag of namespaces
          proc,         \* argument of setProcMetrics
          procMetrics   \* result of setProcMetrics

vars == <<request, stats, env, pc, idx, fetched, stateCount, metrics,
          outcome, ret, metricTypes, proc, procMetrics>>

(* ----------------------------- bounds ---------------------------------- *)
\* longest request list
MaxReq == 2
\* largest snapshot
MaxProcs == 2
\* width of the unsigned integers parsed from the stat fields.  The code
\* uses 64; TLC's integers are 32 bits wide, so the width is scaled down
\* and every formula is stated in terms of uintMax.
UintBits == 16

(* ----------------------------- strings --------------------------------- *)
NUL == "<NUL>"
Digits == {"0", "1", "2", "3", "4", "5", "6", "7", "8", "9"}
DigitChar == <<"0", "1", "2", "3", "4", "5", "6", "7", "8", "9">>
DigitVal == [c \in Digits |-> (CHOOSE i \in 1..10 : DigitChar[i] = c) - 1]

At(s, i) == s[i + 1]

RECURSIVE Join(_)
Join(chars) == IF chars = <<>> THEN "" ELSE Head(chars) \o Join(Tail(chars))

RECURSIVE Split(_, _)
Split(s, sep) ==
  IF s = <<>> THEN << <<>> >>
  ELSE IF Head(s) = sep THEN << <<>> >> \o Split(Tail(s), sep)
  ELSE LET rest == Split(Tail(s), sep)
       IN  << <<Head(s)>> \o Head(rest) >> \o Tail(rest)

RECURSIVE Itoa(_)
Itoa(n) == IF n < 10 THEN DigitChar[n + 1]
           ELSE Itoa(n \div 10) \o DigitChar[(n % 10) + 1]

uintMax == 2^UintBits - 1
cutoff == uintMax \div 10 + 1

RECURSIVE ParseDigits(_, _)
ParseDigits(s, n) ==
  IF s = <<>> THEN [val |-> n, err |-> "nil"]
  ELSE IF Head(s) \notin Digits THEN [val |-> 0, err |-> "ErrSyntax"]
  ELSE IF n >= cutoff THEN [val |-> uintMax, err |-> "ErrRange"]
  ELSE LET n1 == n * 10 + DigitVal[Head(s)]
       IN  IF n1 > uintMax THEN [val |-> uintMax, err |-> "ErrRange"]
           ELSE ParseDigits(Tail(s), n1)

ParseUint(s) == IF s = <<>> THEN [val |-> 0, err |-> "ErrSyntax"]
                ELSE ParseDigits(s, 0)

(* ----------------------------- catalog --------------------------------- *)
pluginName == "processes"
pluginVendor == "intel"
fs == "procfs"

metricNames ==
  [ ps_vm |-> [description |-> "Virtual memory size in bytes", unit |-> "B"],
    ps_rss |-> [description |-> "Resident Set Size: number of pages the process has in real memory", unit |-> ""],
    ps_data |-> [description |-> "Size of data segments", unit |-> "B"],
    ps_code |-> [description |-> "Size of text segment", unit |-> "B"],
    ps_stacksize |-> [description |-> "Stack size", unit |-> "B"],
    ps_cputime_user |-> [description |-> "Amount of time that this process has been scheduled in user mode", unit |-> "Jiff"],
    ps_cputime_system |-> [description |-> "Amount of time that this process has been scheduled in kernel mode", unit |-> "Jiff"],
    ps_pagefaults_min |-> [description |-> "The number of minor faults the process has made", unit |-> ""],
    ps_pagefaults_maj |-> [description |-> "The number of major faults the process has made", unit |-> ""],
    ps_disk_ops_syscr |-> [description |-> "Attempt to count the number of read I/O operations", unit |-> ""],
    ps_disk_ops_syscw |-> [description |-> "Attempt to count the number of write I/O operations", unit |-> ""],
    ps_disk_octets_rchar |-> [description |-> "The number of bytes which this task has caused to be read from storage", unit |-> "B"],
    ps_disk_octets_wchar |-> [description |-> "The number of bytes which this task has caused, or shall cause to be written to disk", unit |-> "B"],
    ps_cmd_line |-> [description |-> "Process command line with full path and args", unit |-> ""],
    ps_cmd |-> [description |-> "Process command line with full path", unit |-> ""] ]

\* state code -> state name (declared outside processes.go)
States == [R |-> "running", S |-> "sleeping", D |-> "waiting", Z |-> "zombie"]

\* States.Values(): the names, one per code; the order is not used
StatesValues == [n \in {States[c] : c \in DOMAIN States} |->
                   Cardinality({c \in DOMAIN States : States[c] = n})]

\* States[code] of a Go map: the zero value "" for an absent key
StatesLookup(code) == IF code \in DOMAIN States THEN States[code] ELSE ""

(* ----------------------------- namespaces ------------------------------ *)
StaticElement(v) == [Value |-> v, Description |-> "", Name |-> ""]
DynamicElement(name, description) ==
  [Value |-> "*", Description |-> description, Name |-> name]

\* NamespaceElement.IsDynamic
ElemIsDynamic(e) == e.Name # ""
\* Namespace.IsDynamic: some element is dynamic
NsIsDynamic(ns) == \E i \in 1..Len(ns) : ElemIsDynamic(ns[i])

MetricNamespace_dupLeaf(metricName) ==
  << StaticElement(pluginVendor), StaticElement(fs),
     StaticElement(pluginName), StaticElement("pid"),
     DynamicElement("process_id", "pid of the running process"),
     DynamicElement("process_name", "name of the running process"),
     StaticElement("ps_vm") >>

MetricNamespace(metricName) ==
  << StaticElement(pluginVendor), StaticElement(fs),
     StaticElement(pluginName), StaticElement("pid"),
     DynamicElement("process_id", "pid of the running process"),
     DynamicElement("process_name", "name of the running process"),
     StaticElement(metricName) >>

StateNamespace(state) ==
  << StaticElement(pluginVendor), StaticElement(fs),
     StaticElement(pluginName), StaticElement(state) >>

\* the slice GetMetricTypes returns, as a bag: both loops range over Go
\* maps, so the order of the slice is arbitrary and only the number of
\* copies of each namespace is determined
GetMetricTypesResult ==
  LET all == {MetricNamespace(m) : m \in DOMAIN metricNames}
             \cup {StateNamespace(s) : s \in DOMAIN StatesValues}
  IN  [ns \in all |->
         Cardinality({m \in DOMAIN metricNames : MetricNamespace(m) = ns})
         + Cardinality({c \in DOMAIN States : StateNamespace(States[c]) = ns})]

(* ----------------------------- setProcMetrics -------------------------- *)
\* proc.Io[k] of a Go map: 0 for an absent counter
IoAt(p, k) == IF k \in DOMAIN p.Io THEN p.Io[k] ELSE 0

setProcMetrics(p) ==
  LET vm     == ParseUint(At(p.Stat, 22)).val
      rss    == ParseUint(At(p.Stat, 23)).val
      stack1 == ParseUint(At(p.Stat, 27)).val
      stack2 == ParseUint(At(p.Stat, 28)).val
      utime  == ParseUint(At(p.Stat, 13)).val
      stime  == ParseUint(At(p.Stat, 14)).val
      minflt == ParseUint(At(p.Stat, 9)).val
      majflt == ParseUint(At(p.Stat, 11)).val
  IN  ("ps_vm" :> vm) @@ ("ps_rss" :> rss)
      @@ ("ps_data" :> p.VmData) @@ ("ps_code" :> p.VmCode)
      @@ ("ps_stacksize" :>
            IF stack1 > stack2 THEN stack1 - stack2 ELSE stack2 - stack1)
      @@ ("ps_cputime_user" :> utime) @@ ("ps_cputime_system" :> stime)
      @@ ("ps_pagefaults_min" :> minflt) @@ ("ps_pagefaults_maj" :> majflt)
      @@ ("ps_disk_octets_rchar" :> IoAt(p, "rchar"))
      @@ ("ps_disk_octets_wchar" :> IoAt(p, "wchar"))
      @@ ("ps_disk_ops_syscr" :> IoAt(p, "syscr"))
      @@ ("ps_disk_ops_syscw" :> IoAt(p, "syscw"))
      @@ ("ps_cmd_line" :> p.CmdLine) @@ ("ps_cmd" :> p.Cmd)
      @@ [m \in DOMAIN metricNames |-> 0]

(* ----------------------------- state counts ---------------------------- *)
EmptyMap == [k \in {} |-> 0]

InitStateCount == [s \in DOMAIN StatesValues |-> 0]

\* stateCount[k]++ on a Go map
Incr(sc, k) == IF k \in DOMAIN sc THEN [sc EXCEPT ![k] = @ + 1]
               ELSE (k :> 1) @@ sc

RECURSIVE CountStates_byCode(_, _)
CountStates_byCode(sc, procs) ==
  IF procs = <<>> THEN sc
  ELSE CountStates_byCode(Incr(sc, Head(procs).State), Tail(procs))

RECURSIVE CountStates(_, _)
CountStates(sc, procs) ==
  IF procs = <<>> THEN sc
  ELSE CountStates(Incr(sc, StatesLookup(Head(procs).State)), Tail(procs))

(* ----------------------------- resolution ------------------------------ *)
ProcName_noNulCut(cmdLine) ==
  LET cmdPath == Split(cmdLine, "/")
  IN  Join(cmdPath[Len(cmdPath)])

\* last "/" segment of the command line cut at its first NUL
ProcName(cmdLine) ==
  LET cmdPath == Split(At(Split(cmdLine, NUL), 0), "/")
  IN  Join(cmdPath[Len(cmdPath)])

FillNamespace_clearName(ns, p) ==
  [ns EXCEPT ![5] = StaticElement(Itoa(p.Pid)),
             ![6] = StaticElement(ProcName(p.CmdLine))]

\* nuns: a copy of ns with the values of elements 4 and 5 replaced
FillNamespace(ns, p) ==
  [ns EXCEPT ![5].Value = Itoa(p.Pid), ![6].Value = ProcName(p.CmdLine)]

ProcMetric(ns, p, procMet, val) ==
  [Namespace_ |-> FillNamespace(ns, p), Data_ |-> val,
   Unit_ |-> metricNames[procMet].unit,
   Description_ |-> metricNames[procMet].description]

StateMetric_offByOne(ns, state, sc) ==
  [Namespace_ |-> ns, Data_ |-> sc[state] + 1,
   Description_ |-> "Number of processes in " \o state \o " state",
   Unit_ |-> ""]

StateMetric(ns, state, sc) ==
  [Namespace_ |-> ns, Data_ |-> sc[state],
   Description_ |-> "Number of processes in " \o state \o " state",
   Unit_ |-> ""]

\* the loop over stats of the fully dynamic branch; the inner loop over
\* procMetrics appends at most once, for the key equal to ns[6].Value
RECURSIVE ExpandProcs(_, _, _)
ExpandProcs(ns, procs, acc) ==
  IF procs = <<>> THEN [err |-> "none", out |-> acc]
  ELSE IF Len(ns) < 7 THEN [err |-> "panic", out |-> <<>>]
  ELSE LET p    == Head(procs)
           pm   == setProcMetrics(p)
           leaf == At(ns, 6).Value
       IN  ExpandProcs(ns, Tail(procs),
             IF leaf \in DOMAIN pm
             THEN Append(acc, ProcMetric(ns, p, leaf, pm[leaf]))
             ELSE acc)

\* one iteration of the loop over metricTypes
ResolveNamespace(ns, procs, sc) ==
  IF Len(ns) < 4 THEN [err |-> "ConfigurationError", out |-> <<>>]
  ELSE IF NsIsDynamic(ns) THEN
    IF Len(ns) < 5 THEN [err |-> "panic", out |-> <<>>]
    ELSE IF ElemIsDynamic(At(ns, 4)) THEN
      IF Len(ns) < 6 THEN [err |-> "panic", out |-> <<>>]
      ELSE IF ElemIsDynamic(At(ns, 5)) THEN ExpandProcs(ns, procs, <<>>)
      ELSE [err |-> "none", out |-> <<>>]
    ELSE [err |-> "none", out |-> <<>>]
  ELSE IF At(ns, 3).Value \in DOMAIN StatesValues THEN
    IF At(ns, 3).Value \in DOMAIN sc
    THEN [err |-> "none",
          out |-> << StateMetric(ns, At(ns, 3).Value, sc) >>]
    ELSE [err |-> "none", out |-> <<>>]
  ELSE [err |-> "none", out |-> <<>>]

CollectStart_ignoreFetchErr(req, e, procs) ==
  IF Len(req) = 0
  THEN [pc |-> "done", outcome |-> "panic", fetched |-> "no",
        stateCount |-> EmptyMap]
  ELSE IF e = "cfg_missing"
  THEN [pc |-> "done", outcome |-> "ConfigurationError", fetched |-> "no",
        stateCount |-> EmptyMap]
  ELSE IF e = "fetch_fail"
  THEN [pc |-> "loop", outcome |-> "none", fetched |-> "failed",
        stateCount |-> InitStateCount]
  ELSE [pc |-> "loop", outcome |-> "none", fetched |-> "ok",
        stateCount |-> CountStates(InitStateCount, procs)]

\* CollectMetrics up to the loop over metricTypes
CollectStart(req, e, procs) ==
  IF Len(req) = 0
  THEN [pc |-> "done", outcome |-> "panic", fetched |-> "no",
        stateCount |-> EmptyMap]
  ELSE IF e = "cfg_missing"
  THEN [pc |-> "done", outcome |-> "ConfigurationError", fetched |-> "no",
        stateCount |-> EmptyMap]
  ELSE IF e = "fetch_fail"
  THEN [pc |-> "done", outcome |-> "DataSourceError", fetched |-> "failed",
        stateCount |-> InitStateCount]
  ELSE [pc |-> "loop", outcome |-> "none", fetched |-> "ok",
        stateCount |-> CountStates(InitStateCount, procs)]

(* ----------------------------- inputs ---------------------------------- *)
\* a /proc/<pid>/stat line: 29 fields, "0" where f gives nothing
StatOf(f) == [i \in 1..29 |-> IF (i - 1) \in DOMAIN f THEN f[i - 1]
                                ELSE <<"0">>]

FullIo == [rchar |-> 11, wchar |-> 12, syscr |-> 13, syscw |-> 14]

\* pid 100, /usr/bin/foo<NUL>-x, sleeping
ProcFoo ==
  [Pid |-> 100, State |-> "S",
   CmdLine |-> <<"/", "u", "s", "r", "/", "b", "i", "n", "/", "f", "o", "o",
                 NUL, "-", "x">>,
   Cmd |-> "foo", VmData |-> 5, VmCode |-> 6, Io |-> FullIo,
   Stat |-> StatOf((22 :> <<"4", "0", "9", "6">>) @@ (23 :> <<"2", "1">>)
                   @@ (27 :> <<"9">>) @@ (28 :> <<"4">>))]

\* pid 200, /bin/bar, running
ProcBar ==
  [Pid |-> 200, State |-> "R",
   CmdLine |-> <<"/", "b", "i", "n", "/", "b", "a", "r">>,
   Cmd |-> "bar", VmData |-> 7, VmCode |-> 8, Io |-> FullIo,
   Stat |-> StatOf((22 :> <<"8", "1", "9", "2">>) @@ (23 :> <<"x">>)
                   @@ (27 :> <<"4">>) @@ (28 :> <<"9">>))]

\* pid 7, a kernel thread: empty command line, state code I (idle) that
\* States does not know, no I/O counters
ProcIdle ==
  [Pid |-> 7, State |-> "I", CmdLine |-> <<>>,
   Cmd |-> "kworker", VmData |-> 0, VmCode |-> 0, Io |-> EmptyMap,
   Stat |-> StatOf((22 :> <<"-", "1">>))]

\* pid 42, sh<NUL>-c<NUL>a/b, running
ProcSh ==
  [Pid |-> 42, State |-> "R",
   CmdLine |-> <<"s", "h", NUL, "-", "c", NUL, "a", "/", "b">>,
   Cmd |-> "sh", VmData |-> 1, VmCode |-> 2, Io |-> FullIo,
   Stat |-> StatOf((22 :> <<"9", "9", "9", "9", "9", "9">>))]

ProcPool == {ProcFoo, ProcBar, ProcIdle, ProcSh}

\* snapshots: up to MaxProcs records with distinct pids
Snapshots ==
  UNION {{sq \in [1..n -> ProcPool] :
            \A i, j \in 1..n : i # j => sq[i].Pid # sq[j].Pid}
         : n \in 0..MaxProcs}

Prefix == << StaticElement(pluginVendor), StaticElement(fs),
             StaticElement(pluginName) >>
PidDyn == DynamicElement("process_id", "pid of the running process")
NameDyn == DynamicElement("process_name", "name of the running process")

FullPattern(leaf) ==
  Prefix \o <<StaticElement("pid"), PidDyn, NameDyn, StaticElement(leaf)>>

NamespacePool ==
  { Prefix,                                                   \* 3 elements
    Prefix \o <<StaticElement("running")>>,
    Prefix \o <<StaticElement("unknownstate")>>,
    Prefix \o <<StaticElement("sleeping"), StaticElement("extra")>>,
    Prefix \o <<StaticElement("pid"), StaticElement("running")>>,
    Prefix \o <<PidDyn>>,                                     \* 4, dynamic
    Prefix \o <<StaticElement("pid"), PidDyn>>,               \* 5, pid dynamic
    Prefix \o <<StaticElement("pid"), PidDyn, NameDyn>>,      \* 6, both
    FullPattern("ps_vm"),
    FullPattern("nosuchmetric"),
    FullPattern("ps_vm") \o <<StaticElement("extra")>>,
    Prefix \o <<StaticElement("pid"), PidDyn, StaticElement("bar"),
                StaticElement("ps_vm")>>,
    Prefix \o <<StaticElement("pid"), StaticElement("100"), NameDyn,
                StaticElement("running")>> }

Requests == UNION {[1..n -> NamespacePool] : n \in 0..MaxReq}

NoProc == [Pid |-> 0, State |-> "", CmdLine |-> <<>>, Cmd |-> "",
           VmData |-> 0, VmCode |-> 0, Io |-> EmptyMap, Stat |-> StatOf(EmptyMap)]

(* ----------------------------- the calls ------------------------------- *)
Init ==
  /\ request \in Requests
  /\ stats \in Snapshots
  /\ env \in {"ok", "cfg_missing", "fetch_fail"}
  /\ pc = "start"
  /\ idx = 0
  /\ fetched = "no"
  /\ stateCount = EmptyMap
  /\ metrics = <<>>
  /\ outcome = "none"
  /\ ret = <<>>
  /\ metricTypes = EmptyBag
  /\ proc = NoProc
  /\ procMetrics = EmptyMap

GetMetricTypes ==
  /\ pc = "start"
  /\ pc' = "discovered"
  /\ metricTypes' = GetMetricTypesResult
  /\ UNCHANGED <<request, stats, env, idx, fetched, stateCount, metrics,
                 outcome, ret, proc, procMetrics>>

\* CollectMetrics, from the call to the loop over metricTypes
CollectMetricsStart ==
  /\ pc = "start"
  /\ LET r == CollectStart(request, env, stats)
     IN  /\ pc' = r.pc
         /\ outcome' = r.outcome
         /\ fetched' = r.fetched
         /\ stateCount' = r.stateCount
  /\ UNCHANGED <<request, stats, env, idx, metrics, ret, metricTypes,
                 proc, procMetrics>>

\* CollectMetrics, one iteration of the loop over metricTypes
CollectMetricsResolve ==
  /\ pc = "loop"
  /\ idx < Len(request)
  /\ LET r == ResolveNamespace(At(request, idx), stats, stateCount)
     IN  IF r.err = "none"
         THEN /\ metrics' = metrics \o r.out
              /\ idx' = idx + 1
              /\ UNCHANGED <<pc, outcome>>
         ELSE /\ pc' = "done"
              /\ outcome' = r.err
              /\ UNCHANGED <<metrics, idx>>
  /\ UNCHANGED <<request, stats, env, fetched, stateCount, ret, metricTypes,
                 proc, procMetrics>>

\* CollectMetrics, return metrics, nil
CollectMetricsReturn ==
  /\ pc = "loop"
  /\ idx = Len(request)
  /\ pc' = "done"
  /\ outcome' = "ok"
  /\ ret' = metrics
  /\ UNCHANGED <<request, stats, env, idx, fetched, stateCount, metrics,
                 metricTypes, proc, procMetrics>>

Next == \/ GetMetricTypes
        \/ CollectMetricsStart
        \/ CollectMetricsResolve
        \/ CollectMetricsReturn

Spec == Init /\ [][Next]_vars

(* ----------------------------- setProcMetrics alone -------------------- *)
\* stat fields tried at position 22 and as stack bounds
FieldPool == { <<"4", "0", "9", "6">>, <<>>, <<"x">>, <<"-", "3">>,
               <<"1", "2", "a">>, <<"9", "9", "9", "9", "9", "9">>,
               <<"0", "0", "7">> }
StackPool == { <<"9">>, <<"4">>, <<"x">>, <<"9", "9", "9", "9", "9", "9">> }
SmallPool == { <<"7">>, <<"+", "7">>, <<"9", "9", "9", "9", "9", "9">> }

ExtractProcs ==
  { [Pid |-> 1, State |-> "R", CmdLine |-> <<"a">>, Cmd |-> "a",
     VmData |-> 5, VmCode |-> 6, Io |-> io,
     Stat |-> StatOf((9 :> f[1]) @@ (11 :> f[2]) @@ (13 :> f[3])
                     @@ (14 :> f[4]) @@ (23 :> f[5]) @@ (22 :> vm)
                     @@ (27 :> st[1]) @@ (28 :> st[2]))]
    : f \in [1..5 -> SmallPool], vm \in FieldPool,
      st \in [1..2 -> StackPool], io \in {FullIo, EmptyMap} }

InitExtract ==
  /\ proc \in ExtractProcs
  /\ pc = "extract"
  /\ request = <<>>
  /\ stats = <<>>
  /\ env = "ok"
  /\ idx = 0
  /\ fetched = "no"
  /\ stateCount = EmptyMap
  /\ metrics = <<>>
  /\ outcome = "none"
  /\ ret = <<>>
  /\ metricTypes = EmptyBag
  /\ procMetrics = EmptyMap

SetProcMetricsCall ==
  /\ pc = "extract"
  /\ pc' = "extracted"
  /\ procMetrics' = setProcMetrics(proc)
  /\ UNCHANGED <<request, stats, env, idx, fetched, stateCount, metrics,
                 outcome, ret, metricTypes, proc>>

NextExtract == SetProcMetricsCall

SpecExtract == InitExtract /\ [][NextExtract]_vars

(* ======================================================================= *)
(*                               properties                                *)
(* ======================================================================= *)
DeclaredMetrics == DOMAIN metricNames
KnownStates == {States[c] : c \in DOMAIN States}
Leaf(ns) == ns[Len(ns)]
Cur == At(request, idx)
Resolving == pc = "loop" /\ idx < Len(request)
Errors == {"ConfigurationError", "DataSourceError", "panic"}

MinOf(S) == CHOOSE i \in S : \A j \in S : i <= j
MaxOf(S) == CHOOSE i \in S : \A j \in S : i >= j

\* decimal text of n, digit by digit from the most significant
NumDigits(n) == IF n = 0 THEN 1
                ELSE CHOOSE k \in 1..9 : 10^(k - 1) <= n /\ n < 10^k
PidText(n) ==
  LET k == NumDigits(n)
  IN  Join([i \in 1..k |-> DigitChar[((n \div 10^(k - i)) % 10) + 1]])

\* the text between the last "/" before the first NUL and that NUL
ExpectedName(c) ==
  LET nuls    == {i \in 1..Len(c) : c[i] = NUL}
      e       == IF nuls = {} THEN Len(c) + 1 ELSE MinOf(nuls)
      slashes == {i \in 1..(e - 1) : c[i] = "/"}
      b       == IF slashes = {} THEN 0 ELSE MaxOf(slashes)
  IN  Join(SubSeq(c, b + 1, e - 1))

FullyDynamic(ns) ==
  Len(ns) >= 6 /\ ElemIsDynamic(At(ns, 4)) /\ ElemIsDynamic(At(ns, 5))

\* the metrics appended by the step are one per process of the snapshot,
\* in snapshot order, for metric name
OnePerProcess(name) ==
  /\ outcome' = "none"
  /\ Len(metrics') = Len(metrics) + Len(stats)
  /\ SubSeq(metrics', 1, Len(metrics)) = metrics
  /\ \A k \in 1..Len(stats) :
       LET m == metrics'[Len(metrics) + k]
           p == stats[k]
       IN  /\ At(m.Namespace_, 4).Value = PidText(p.Pid)
           /\ At(m.Namespace_, 5).Value = ExpectedName(p.CmdLine)
           /\ At(m.Namespace_, 6).Value = name
           /\ m.Data_ = setProcMetrics(p)[name]
           /\ (p = ProcFoo /\ name = "ps_vm") =>
                /\ At(m.Namespace_, 4).Value = "100"
                /\ At(m.Namespace_, 5).Value = "foo"
                /\ m.Data_ = 4096
           /\ (p = ProcBar /\ name = "ps_vm") =>
                /\ At(m.Namespace_, 4).Value = "200"
                /\ At(m.Namespace_, 5).Value = "bar"
                /\ m.Data_ = 8192

\* C1 (as claimed): when the snapshot fetch succeeds and the request holds
\* a namespace of fewer than 4 elements, the call ends with a
\* ConfigurationError and hands back no metric.
C1_ShortPatternIsConfigurationError ==
  (pc = "done" /\ fetched = "ok"
     /\ \E i \in 1..Len(request) : Len(request[i]) < 4)
  => (outcome = "ConfigurationError" /\ ret = <<>>)

\* C2: once GetStats has failed the call is over with a DataSourceError,
\* no namespace was resolved, no metric (state count or other) was built
\* or handed back; and a failing data source is never got past.
C2_FetchFailureAborts ==
  /\ fetched = "failed" =>
       /\ pc = "done"
       /\ outcome = "DataSourceError"
       /\ ret = <<>>
       /\ metrics = <<>>
       /\ idx = 0
  /\ (env = "fetch_fail" /\ request # <<>> /\ pc \in {"loop", "done"})
       => fetched = "failed"

C2_Witness ==
  /\ pc = "done"
  /\ fetched = "failed"
  /\ Len(request) = 2
  /\ request[1] = Prefix \o <<StaticElement("running")>>
  /\ request[2] = FullPattern("ps_vm")
  /\ Len(stats) = 2

\* C3 (amended): resolving a namespace whose pid and name elements are both
\* dynamic and whose element 6 is a declared metric name appends exactly
\* one metric per process of the snapshot, in snapshot order, with the pid
\* as decimal text, the last "/" segment of the command line before its
\* first NUL, and the extractor's value; when there is no element 6 or it
\* is no declared metric name, nothing is appended.
C3_FullyDynamicByElement6 ==
  [][(Resolving /\ FullyDynamic(Cur)) =>
       IF Len(Cur) >= 7 /\ At(Cur, 6).Value \in DeclaredMetrics
       THEN OnePerProcess(At(Cur, 6).Value)
       ELSE metrics' = metrics]_vars

C3_Witness ==
  /\ pc = "done"
  /\ outcome = "ok"
  /\ request = << FullPattern("ps_vm") >>
  /\ stats = << ProcFoo, ProcBar >>
  /\ Len(ret) = 2
  /\ ret[1].Data_ = 4096
  /\ At(ret[1].Namespace_, 5).Value = "foo"
  /\ ret[2].Data_ = 8192

\* C3 (as claimed): the same with the leaf, the last element, in the place
\* of element 6.
C3_FullyDynamicByLeaf ==
  [][(Resolving /\ FullyDynamic(Cur)) =>
       IF Leaf(Cur).Value \in DeclaredMetrics
       THEN OnePerProcess(Leaf(Cur).Value)
       ELSE metrics' = metrics]_vars

\* the step appends exactly one metric, for namespace Cur, holding the
\* count of state name
OneStateMetric(name) ==
  /\ outcome' = "none"
  /\ Len(metrics') = Len(metrics) + 1
  /\ SubSeq(metrics', 1, Len(metrics)) = metrics
  /\ metrics'[Len(metrics')].Namespace_ = Cur
  /\ metrics'[Len(metrics')].Data_ = stateCount[name]

NothingNoError == metrics' = metrics /\ outcome' = "none"

\* C4 (amended): resolving a namespace of at least 4 elements, none of them
\* dynamic, appends exactly one metric, the state count of element 3, when
\* element 3 is a known state name, and nothing, without error, when it is
\* not.
C4_StaticByElement3 ==
  [][(Resolving /\ Len(Cur) >= 4 /\ ~NsIsDynamic(Cur)) =>
       IF At(Cur, 3).Value \in KnownStates
       THEN OneStateMetric(At(Cur, 3).Value)
       ELSE NothingNoError]_vars

C4_Witness ==
  /\ pc = "done"
  /\ outcome = "ok"
  /\ request = << Prefix \o <<StaticElement("running")>>,
                  Prefix \o <<StaticElement("unknownstate")>> >>
  /\ stats = << ProcBar, ProcSh >>
  /\ Len(ret) = 1
  /\ ret[1].Data_ = 2

\* C4 (as claimed): the same with the leaf, the last element, in the place
\* of element 3.
C4_StaticByLeaf ==
  [][(Resolving /\ Len(Cur) >= 4 /\ ~NsIsDynamic(Cur)) =>
       IF Leaf(Cur).Value \in KnownStates
       THEN OneStateMetric(Leaf(Cur).Value)
       ELSE NothingNoError]_vars

\* C5 (as claimed): a finished collection is a success, a DataSourceError
\* or a ConfigurationError, never anything else.
C5_ThreeOutcomes ==
  pc = "done" => outcome \in {"ok", "DataSourceError", "ConfigurationError"}

RECURSIVE DecValue(_)
DecValue(s) == IF s = <<>> THEN 0
               ELSE DecValue(SubSeq(s, 1, Len(s) - 1)) * 10
                    + DigitVal[s[Len(s)]]

\* s is the decimal text of an unsigned integer of UintBits bits
ValidUint(s) ==
  /\ s # <<>>
  /\ \A i \in 1..Len(s) : s[i] \in Digits
  /\ DecValue(s) <= uintMax

ValueOrZero(s) == IF ValidUint(s) THEN DecValue(s) ELSE 0

\* C6 (as claimed): setProcMetrics returns exactly the 15 declared keys and
\* every stat field that is not a valid unsigned integer of the parsed
\* width counts as 0 in its metric.
C6_ExtractDefaultsToZero ==
  pc = "extracted" =>
    /\ DOMAIN procMetrics =
         {"ps_vm", "ps_rss", "ps_data", "ps_code", "ps_stacksize",
          "ps_cputime_user", "ps_cputime_system", "ps_pagefaults_min",
          "ps_pagefaults_maj", "ps_disk_ops_syscr", "ps_disk_ops_syscw",
          "ps_disk_octets_rchar", "ps_disk_octets_wchar", "ps_cmd_line",
          "ps_cmd"}
    /\ \A f \in { <<"ps_vm", 22>>, <<"ps_rss", 23>>,
                  <<"ps_cputime_user", 13>>, <<"ps_cputime_system", 14>>,
                  <<"ps_pagefaults_min", 9>>, <<"ps_pagefaults_maj", 11>> } :
         ~ValidUint(At(proc.Stat, f[2])) => procMetrics[f[1]] = 0
    /\ LET a == ValueOrZero(At(proc.Stat, 27))
           b == ValueOrZero(At(proc.Stat, 28))
       IN  procMetrics["ps_stacksize"] = IF a > b THEN a - b ELSE b - a

\* C7 (as claimed): no returned metric has a namespace with an element
\* still flagged dynamic.
C7_NoDynamicElementReturned ==
  (pc = "done" /\ outcome = "ok") =>
    \A k \in 1..Len(ret) : ~NsIsDynamic(ret[k].Namespace_)

\* C7 (amended): a metric appended for a namespace with dynamic elements
\* has that namespace with only the values of the pid and name elements
\* replaced, by the pid and the name of one process of the snapshot; the
\* two elements keep their names and so are still flagged dynamic.  A metric
\* appended for a static namespace has that namespace, without dynamic
\* element.
C7_FilledButStillDynamic ==
  [][Resolving =>
       \A k \in (Len(metrics) + 1)..Len(metrics') :
         LET ns == metrics'[k].Namespace_
         IN  IF NsIsDynamic(Cur)
             THEN /\ Len(ns) = Len(Cur)
                  /\ \A i \in 1..Len(ns) :
                       /\ ns[i].Name = Cur[i].Name
                       /\ ns[i].Description = Cur[i].Description
                       /\ i \notin {5, 6} => ns[i].Value = Cur[i].Value
                  /\ ElemIsDynamic(At(ns, 4))
                  /\ ElemIsDynamic(At(ns, 5))
                  /\ \E j \in 1..Len(stats) :
                       /\ At(ns, 4).Value = PidText(stats[j].Pid)
                       /\ At(ns, 5).Value = ExpectedName(stats[j].CmdLine)
             ELSE ns = Cur /\ ~NsIsDynamic(ns)]_vars

C7_Witness ==
  /\ pc = "done"
  /\ outcome = "ok"
  /\ Len(ret) = 2
  /\ NsIsDynamic(ret[1].Namespace_)
  /\ At(ret[1].Namespace_, 4).Value = "42"
  /\ At(ret[1].Namespace_, 5).Value = "sh"
  /\ ~NsIsDynamic(ret[2].Namespace_)

\* C8: after aggregation every known state name is a key of stateCount and
\* its count is the number of records of the snapshot whose state code
\* maps to that name (0 when there is none); records with an unmapped
\* state code count for no known state.
C8_StateCounts ==
  fetched = "ok" =>
    \A s \in KnownStates :
      /\ s \in DOMAIN stateCount
      /\ stateCount[s] =
           Cardinality({i \in 1..Len(stats) :
                          /\ stats[i].State \in DOMAIN States
                          /\ States[stats[i].State] = s})

C8_Witness ==
  /\ fetched = "ok"
  /\ stats = << ProcIdle, ProcBar >>
  /\ stateCount["running"] = 1
  /\ stateCount["sleeping"] = 0

\* C9: GetMetricTypes returns one namespace per declared metric and one per
\* known state, each once, and nothing else; a metric's namespace has
\* exactly two dynamic elements, process_id then process_name, followed by
\* the static metric name as leaf; a state's namespace has no dynamic
\* element and the state name as leaf.
C9_OnePatternEach ==
  pc = "discovered" =>
    /\ \A m \in DeclaredMetrics :
         \E ns \in DOMAIN metricTypes :
           /\ Leaf(ns).Value = m
           /\ \A other \in DOMAIN metricTypes :
                Leaf(other).Value = m => other = ns
           /\ metricTypes[ns] = 1
           /\ Len(ns) = 7
           /\ {i \in 1..Len(ns) : ElemIsDynamic(ns[i])} = {5, 6}
           /\ ns[5].Name = "process_id"
           /\ ns[6].Name = "process_name"
    /\ \A st \in KnownStates :
         \E ns \in DOMAIN metricTypes :
           /\ Leaf(ns).Value = st
           /\ \A other \in DOMAIN metricTypes :
                Leaf(other).Value = st => other = ns
           /\ metricTypes[ns] = 1
           /\ ~NsIsDynamic(ns)
    /\ \A ns \in DOMAIN metricTypes :
         Leaf(ns).Value \in DeclaredMetrics \cup KnownStates
    /\ BagCardinality(metricTypes) =
         Cardinality(DeclaredMetrics) + Cardinality(KnownStates)

C9_Witness ==
  /\ pc = "discovered"
  /\ BagIn(MetricNamespace("ps_cmd"), metricTypes)
  /\ BagIn(StateNamespace("zombie"), metricTypes)

\* exactly one of the pid element and the name element is dynamic
PartiallyDynamic(ns) ==
  /\ Len(ns) >= 5
  /\ ElemIsDynamic(At(ns, 4)) # (Len(ns) >= 6 /\ ElemIsDynamic(At(ns, 5)))

\* C10 (as claimed): resolving a namespace of which only the pid element or
\* only the name element is dynamic appends no metric and raises no error.
C10_PartiallyDynamicIsNoOp ==
  [][(Resolving /\ PartiallyDynamic(Cur)) => NothingNoError]_vars

====
